---- MODULE Spec2Model ----
(***************************************************************************)
(* The anvil region-file codec of anvil-lib: the decoders                  *)
(* (raw/unpack/mod.rs get_region_raw, raw/mod.rs RawRegion::from_file) and *)
(* the encoders (raw/mod.rs RawRegion::to_file with raw/pack.rs,           *)
(* raw/pack/mod.rs pack_region).                                           *)
(*                                                                         *)
(* Byte sequences are TLA+ sequences of 0..255; a Rust index k is          *)
(* position k + 1 of the sequence.  The format is kept at a reduced scale: *)
(* the source has 1024 slots of 4-byte position records filling one        *)
(* 4096-byte block, and two such blocks of tables (8192 bytes).  The model *)
(* keeps exactly these ratios for CHUNKS_PER_REGION slots.                 *)
(*                                                                         *)
(* A call has one of three outcomes: a value (kind "Ok"), an error value   *)
(* of the function's error type, or an abort of the process (kind          *)
(* "Abort": an index or slice outside its buffer, or an unsigned           *)
(* subtraction below zero, which panics in a build with overflow checks    *)
(* and otherwise wraps to a width near 2^64 that the following allocation  *)
(* cannot satisfy; in both builds the call never returns).                 *)
(***************************************************************************)
EXTENDS Integers, Sequences, FiniteSets, TLC

(* ----------------------------- bounds ---------------------------------- *)

\* number of slots per region (1024 in the source)
CHUNKS_PER_REGION == 2

\* number of whole data blocks an input file may have after the two tables
MaxDataBlocks == 2

(* ------------------------ format constants ----------------------------- *)

\* bytes per position-table record
RECORD_LEN == 4

\* the block: CHUNKS_PER_REGION records of RECORD_LEN bytes (4096 = 1024 * 4)
BLOCK == RECORD_LEN * CHUNKS_PER_REGION

\* both fixed-size tables (8192 = 2 * 4096)
MIN_SIZE == 2 * BLOCK

\* AnvilSchema::default(), at the model's scale
DefaultSchema ==
  [ chunks_per_region          |-> CHUNKS_PER_REGION,
    posistion_table_record_len |-> RECORD_LEN,
    min_anvil_file_size        |-> MIN_SIZE,
    pos_multiplier             |-> BLOCK,
    size_multiplier            |-> BLOCK,
    pos_table_start_bytes      |-> <<0, 3>>,
    pos_table_size_bytes       |-> <<3, 4>>,
    chunk_starts_from          |-> 5,
    chunk_header_size_bytes    |-> <<0, 4>>,
    chunk_header_compr_bytes   |-> <<4, 5>> ]

(* --------------------------- byte helpers ------------------------------ *)

\* file[k] of the source, for k inside the buffer
At(file, k) == file[k + 1]

\* Slice taken one byte early (from the compression byte on)
Slice_early(file, a, b) == [j \in 1..(b - a) |-> file[a + j - 1]]

\* file[a..b] of the source (a <= b <= len): the bytes a .. b-1
Slice(file, a, b) == [j \in 1..(b - a) |-> file[a + j]]

RECURSIVE Pow256(_)
Pow256(n) == IF n = 0 THEN 1 ELSE 256 * Pow256(n - 1)

\* big-endian value of the bytes a .. b-1 of file (the << and + of the source)
RECURSIVE BigEndian(_, _, _)
BigEndian(file, a, b) ==
  IF b <= a THEN 0
  ELSE At(file, b - 1) + 256 * BigEndian(file, a, b - 1)

(* ------------------ decoder: raw/unpack/mod.rs ------------------------- *)

Abort(site) == [kind |-> "Abort", at |-> site]

FileSizeErr(file_length, minimum_length) ==
  [kind |-> "FileSizeErr", file_length |-> file_length,
   minimum_length |-> minimum_length]

ChunkPosErr(chunk_number, file_length, chunk_end) ==
  [kind |-> "ChunkPosErr", chunk_number |-> chunk_number,
   file_length |-> file_length, chunk_end |-> chunk_end]

ChunkHeaderErr(chunk_number, max_length, indicated_length) ==
  [kind |-> "ChunkHeaderErr", chunk_number |-> chunk_number,
   max_length |-> max_length, indicated_length |-> indicated_length]

\* the position of slot iter's extent, in bytes
entry_pos(file, iter) ==
  BigEndian(file, iter * 4, iter * 4 + 3) * BLOCK

\* the rounded size of slot iter's extent, in bytes
rough_size(file, iter) == At(file, iter * 4 + 3) * BLOCK

\* the 4-byte length field at the start of slot iter's extent
header_size(file, iter) ==
  BigEndian(file, entry_pos(file, iter), entry_pos(file, iter) + 4)

\* get_region_raw_iter with the position check made on the extent start only
get_region_raw_iter_start_only(file, iter) ==
  LET pos   == entry_pos(file, iter)
      rough == rough_size(file, iter)
  IN
  IF pos = 0 THEN [kind |-> "Chunk", data |-> <<>>, compression |-> 0]
  ELSE IF Len(file) < pos
    THEN ChunkPosErr(iter, Len(file), pos + rough)
  ELSE IF pos + 3 >= Len(file)
    THEN Abort("file[entry_pos .. entry_pos + 3]")
  ELSE LET size == header_size(file, iter) IN
    IF 4 + size > rough
      THEN ChunkHeaderErr(iter, rough, 4 + size)
    ELSE IF pos + 4 + size >= Len(file)
      THEN Abort("file[(entry_pos + 5)..=(entry_pos + 4 + size)]")
    ELSE [kind |-> "Chunk",
          data |-> Slice(file, pos + 5, pos + 5 + size),
          compression |-> At(file, pos + 4)]

\* get_region_raw_iter taking a size of 0 as well as a position of 0 for a
\* chunk that has not been created
get_region_raw_iter_pos_or_size(file, iter) ==
  LET pos   == entry_pos(file, iter)
      rough == rough_size(file, iter)
  IN
  IF pos = 0 \/ rough = 0
    THEN [kind |-> "Chunk", data |-> <<>>, compression |-> 0]
  ELSE IF Len(file) < pos + rough
    THEN ChunkPosErr(iter, Len(file), pos + rough)
  ELSE IF pos + 3 >= Len(file)
    THEN Abort("file[entry_pos .. entry_pos + 3]")
  ELSE LET size == header_size(file, iter) IN
    IF 4 + size > rough
      THEN ChunkHeaderErr(iter, rough, 4 + size)
    ELSE IF pos + 4 + size >= Len(file)
      THEN Abort("file[(entry_pos + 5)..=(entry_pos + 4 + size)]")
    ELSE [kind |-> "Chunk",
          data |-> Slice(file, pos + 5, pos + 5 + size),
          compression |-> At(file, pos + 4)]

\* get_region_raw_iter keeping only the two known compression schemes
get_region_raw_iter_known_schemes(file, iter) ==
  LET pos   == entry_pos(file, iter)
      rough == rough_size(file, iter)
  IN
  IF pos = 0 THEN [kind |-> "Chunk", data |-> <<>>, compression |-> 0]
  ELSE IF Len(file) < pos + rough
    THEN ChunkPosErr(iter, Len(file), pos + rough)
  ELSE IF pos + 3 >= Len(file)
    THEN Abort("file[entry_pos .. entry_pos + 3]")
  ELSE LET size == header_size(file, iter) IN
    IF 4 + size > rough
      THEN ChunkHeaderErr(iter, rough, 4 + size)
    ELSE IF pos + 4 + size >= Len(file)
      THEN Abort("file[(entry_pos + 5)..=(entry_pos + 4 + size)]")
    ELSE [kind |-> "Chunk",
          data |-> Slice(file, pos + 5, pos + 5 + size),
          compression |-> IF At(file, pos + 4) \in {1, 2}
                            THEN At(file, pos + 4) ELSE 0]

\* One iteration of the loop of get_region_raw: the tuple pushed
\* (kind "Chunk"), the error returned, or the abort.
get_region_raw_iter(file, iter) ==
  LET pos   == entry_pos(file, iter)
      rough == rough_size(file, iter)
  IN
  IF pos = 0 THEN [kind |-> "Chunk", data |-> <<>>, compression |-> 0]
  ELSE IF Len(file) < pos + rough
    THEN ChunkPosErr(iter, Len(file), pos + rough)
  ELSE IF pos + 3 >= Len(file)
    THEN Abort("file[entry_pos .. entry_pos + 3]")
  ELSE LET size == header_size(file, iter) IN
    IF 4 + size > rough
      THEN ChunkHeaderErr(iter, rough, 4 + size)
    ELSE IF pos + 4 + size >= Len(file)
      THEN Abort("file[(entry_pos + 5)..=(entry_pos + 4 + size)]")
    ELSE [kind |-> "Chunk",
          data |-> Slice(file, pos + 5, pos + 5 + size),
          compression |-> At(file, pos + 4)]

RECURSIVE get_region_raw_loop(_, _, _)
get_region_raw_loop(file, iter, output) ==
  IF iter = CHUNKS_PER_REGION THEN [kind |-> "Ok", chunks |-> output]
  ELSE LET r == get_region_raw_iter(file, iter) IN
    IF r.kind = "Chunk"
      THEN get_region_raw_loop(file, iter + 1,
             Append(output, [data |-> r.data, compression |-> r.compression]))
      ELSE r

get_region_raw(file) ==
  IF Len(file) < MIN_SIZE THEN FileSizeErr(Len(file), MIN_SIZE)
  ELSE get_region_raw_loop(file, 0, <<>>)

(* ------------------ decoder: raw/unpack.rs ----------------------------- *)

ChunkParseErr(chunk_no, file_length, chunk_end) ==
  [kind |-> "ChunkParseErr", chunk_no |-> chunk_no,
   file_length |-> file_length, chunk_end |-> chunk_end]

\* One iteration of the loop of the get_region_raw of raw/unpack.rs, which
\* makes no check of the header length.
get_region_raw_iter_unpack_rs(file, iter) ==
  LET pos   == entry_pos(file, iter)
      rough == rough_size(file, iter)
  IN
  IF pos = 0 THEN [kind |-> "Chunk", data |-> <<>>, compression |-> 0]
  ELSE IF Len(file) < pos + rough
    THEN ChunkParseErr(iter, Len(file), pos + rough)
  ELSE IF pos + 3 >= Len(file)
    THEN Abort("file[entry_pos .. entry_pos + 3]")
  ELSE LET size == header_size(file, iter) IN
    IF pos + 5 + size > Len(file)
      THEN Abort("file[(entry_pos + 5)..(entry_pos + 5 + size)]")
    ELSE [kind |-> "Chunk",
          data |-> Slice(file, pos + 5, pos + 5 + size),
          compression |-> At(file, pos + 4)]

RECURSIVE get_region_raw_loop_unpack_rs(_, _, _)
get_region_raw_loop_unpack_rs(file, iter, output) ==
  IF iter = CHUNKS_PER_REGION THEN [kind |-> "Ok", chunks |-> output]
  ELSE LET r == get_region_raw_iter_unpack_rs(file, iter) IN
    IF r.kind = "Chunk"
      THEN get_region_raw_loop_unpack_rs(file, iter + 1,
             Append(output, [data |-> r.data, compression |-> r.compression]))
      ELSE r

get_region_raw_unpack_rs(file) ==
  IF Len(file) < MIN_SIZE THEN FileSizeErr(Len(file), MIN_SIZE)
  ELSE get_region_raw_loop_unpack_rs(file, 0, <<>>)

(* ------------------ errors: raw/raw_error.rs --------------------------- *)

RawErrData(chunk_index, specified_val, min_val, max_val) ==
  [chunk_index |-> chunk_index, specified_val |-> specified_val,
   min_val |-> min_val, max_val |-> max_val]

\* throw_file_size_err with the two values stored in each other's field
throw_file_size_err_swapped(min_size, size) ==
  [kind |-> "UnpackFileSizeErr", info |-> RawErrData(0, min_size, size, 0)]

throw_file_size_err(min_size, size) ==
  [kind |-> "UnpackFileSizeErr", info |-> RawErrData(0, size, min_size, 0)]

throw_chunk_pos_err(index, size, chunk_end) ==
  [kind |-> "UnpackChunkPosErr", info |-> RawErrData(index, chunk_end, 0, size)]

throw_chunk_header_err(index, max_size, chunk_size) ==
  [kind |-> "UnpackChunkHeaderErr",
   info |-> RawErrData(index, chunk_size, 0, max_size)]

throw_no_chunks_err(no_chunks, req_number) ==
  [kind |-> "PackNoChunksErr",
   info |-> RawErrData(0, no_chunks, req_number, req_number)]

(* ------------------ region: raw/mod.rs --------------------------------- *)

\* enum Compression; Other is the variant the decoder of the design adds
GZip == [variant |-> "GZip"]
ZLib == [variant |-> "ZLib"]
None == [variant |-> "None"]
Other(b) == [variant |-> "Other", byte |-> b]

\* RawChunk = (Compression, Vec<u8>, u32)
RawChunk(compression, chunk, timestamp) == <<compression, chunk, timestamp>>

(* ------------------ encoder: raw/pack.rs ------------------------------- *)

Ok(v) == [kind |-> "Ok", val |-> v]

Zeros(n) == [j \in 1..n |-> 0]

\* usize a - b
CheckedSub(a, b, site) == IF a < b THEN Abort(site) ELSE Ok(a - b)

\* vec.splice(start..end, repl) of a Vec
Splice(vec, start, end, repl, site) ==
  IF start > end \/ end > Len(vec) THEN Abort(site)
  ELSE Ok(SubSeq(vec, 1, start) \o repl \o SubSeq(vec, end + 1, Len(vec)))

make_byte_arr(num, length) ==
  [j \in 1..length |-> (num \div Pow256(length - j)) % 256]

\* base * ceil(num / base)
next_multiple(num, base) == base * ((num + base - 1) \div base)

make_compr_bytes(compr) ==
  IF compr = GZip THEN <<1>> ELSE IF compr = ZLib THEN <<2>> ELSE <<0>>

get_packed_chunk(chunk, schema) ==
  LET final_size    == next_multiple(Len(chunk), schema.size_multiplier)
      amount_to_add == final_size - Len(chunk)
  IN chunk \o Zeros(amount_to_add)

make_header(size, compression, schema) ==
  LET output_vec  == Zeros(schema.chunk_starts_from)
      size_start  == schema.chunk_header_size_bytes[1]
      size_end    == schema.chunk_header_size_bytes[2]
      compr_start == schema.chunk_header_compr_bytes[1]
      compr_end   == schema.chunk_header_compr_bytes[2]
      width       == CheckedSub(size_start, size_end, "size_start - size_end")
  IN
  IF width.kind = "Abort" THEN width
  ELSE LET size_bytes  == make_byte_arr(size, width.val)
           compr_bytes == make_compr_bytes(compression)
           first == Splice(output_vec, size_start, size_end, size_bytes,
                           "output_vec.splice(size_start..size_end)")
       IN IF first.kind = "Abort" THEN first
          ELSE Splice(first.val, compr_start, compr_end, compr_bytes,
                      "output_vec.splice(compr_start..compr_end)")

format_chunk_data(chunk, compression, schema) ==
  IF Len(chunk) = 0 THEN Ok(<<>>)
  ELSE LET new_chunk_data == get_packed_chunk(chunk, schema)
           header == make_header(Len(chunk), compression, schema)
       IN IF header.kind = "Abort" THEN header
          ELSE Ok(header.val \o new_chunk_data)

RECURSIVE pack_chunks_loop(_, _, _, _)
pack_chunks_loop(chunks, schema, iter, output) ==
  IF iter = schema.chunks_per_region THEN Ok(output)
  ELSE IF iter >= Len(chunks) THEN Abort("chunks[iter]")
  ELSE LET new_chunk == format_chunk_data(chunks[iter + 1][2],
                                          chunks[iter + 1][1], schema)
       IN IF new_chunk.kind = "Abort" THEN new_chunk
          ELSE pack_chunks_loop(chunks, schema, iter + 1,
                                Append(output, new_chunk.val))

pack_chunks(chunks, schema) == pack_chunks_loop(chunks, schema, 0, <<>>)

\* let mut pos_from_start = 0
pos_from_start_init == 0

\* pos_from_start += schema.min_anvil_file_size + packed_chunk.len()
pos_from_start_next(pos_from_start, packed_chunk, schema) ==
  pos_from_start + schema.min_anvil_file_size + Len(packed_chunk)

\* One iteration of the loop of create_header_table: the running position
\* after the slot, its position record and its timestamp bytes.
create_header_table_iter(chunks, packed_chunks, schema, iter, pos_before) ==
  LET packed_chunk     == packed_chunks[iter + 1]
      pos_from_start   == pos_from_start_next(pos_before, packed_chunk, schema)
      new_record       == Zeros(schema.posistion_table_record_len)
      start_byte_start == schema.pos_table_start_bytes[1]
      start_byte_end   == schema.pos_table_start_bytes[2]
      size_byte_start  == schema.pos_table_size_bytes[1]
      size_byte_end    == schema.pos_table_size_bytes[2]
      w1 == CheckedSub(start_byte_start, start_byte_end,
                       "start_byte_start - start_byte_end")
      w2 == CheckedSub(size_byte_start, size_byte_end,
                       "size_byte_start - size_byte_end")
  IN
  IF w1.kind = "Abort" THEN w1
  ELSE IF w2.kind = "Abort" THEN w2
  ELSE LET start_bytes == make_byte_arr(pos_from_start, w1.val)
           size_bytes  == make_byte_arr(Len(packed_chunk), w2.val)
           first == Splice(new_record, start_byte_start, start_byte_end,
                      start_bytes,
                      "new_record.splice(start_byte_start..start_byte_end)")
       IN IF first.kind = "Abort" THEN first
          ELSE LET second == Splice(first.val, size_byte_start, size_byte_end,
                               size_bytes,
                               "new_record.splice(size_byte_start..size_byte_end)")
               IN IF second.kind = "Abort" THEN second
                  ELSE Ok([pos_from_start |-> pos_from_start,
                           new_record |-> second.val,
                           new_date |-> make_byte_arr(chunks[iter + 1][3], 4)])

RECURSIVE create_header_table_loop(_, _, _, _, _, _, _)
create_header_table_loop(chunks, packed_chunks, schema, iter, pos_from_start, new_pos_table, new_date_table) ==
  IF iter = Len(chunks) THEN Ok(new_pos_table \o new_date_table)
  ELSE IF iter >= Len(packed_chunks) THEN Abort("packed_chunks[iter]")
  ELSE LET r == create_header_table_iter(chunks, packed_chunks, schema, iter,
                                         pos_from_start)
       IN IF r.kind = "Abort" THEN r
          ELSE create_header_table_loop(chunks, packed_chunks, schema,
                 iter + 1, r.val.pos_from_start,
                 new_pos_table \o r.val.new_record,
                 new_date_table \o r.val.new_date)

create_header_table(chunks, packed_chunks, schema) ==
  create_header_table_loop(chunks, packed_chunks, schema, 0,
                           pos_from_start_init, <<>>, <<>>)

\* RawRegion::to_file
to_file(chunks, schema) ==
  IF Len(chunks) # schema.chunks_per_region
    THEN throw_no_chunks_err(Len(chunks), schema.chunks_per_region)
  ELSE LET packed_chunks == pack_chunks(chunks, schema) IN
    IF packed_chunks.kind = "Abort" THEN packed_chunks
    ELSE LET header_table ==
               create_header_table(chunks, packed_chunks.val, schema) IN
      IF header_table.kind = "Abort" THEN header_table
      ELSE [kind |-> "Ok", bytes |-> <<>>]

(* ------------------ encoder: raw/pack/mod.rs --------------------------- *)

\* (chunk_len as f64 / 4096_00f64).ceil() as usize * 4096
chunk_rounded_len(chunk_len) ==
  ((chunk_len + 100 * BLOCK - 1) \div (100 * BLOCK)) * BLOCK

RECURSIVE pack_region_loop(_, _)
pack_region_loop(region, iter) ==
  IF iter = CHUNKS_PER_REGION THEN [kind |-> "Ok", bytes |-> <<>>]
  ELSE IF iter >= Len(region) THEN Abort("region[iter]")
  ELSE LET chunk == region[iter + 1][1]
           length_to_pack == CheckedSub(chunk_rounded_len(Len(chunk)),
                               Len(chunk), "chunk_rounded_len - chunk.len()")
       IN IF length_to_pack.kind = "Abort" THEN length_to_pack
          ELSE pack_region_loop(region, iter + 1)

\* region: a sequence of (chunk, compression byte)
pack_region(region) ==
  IF Len(region) > CHUNKS_PER_REGION
    THEN [kind |-> "TooLittleChunks",
          args |-> <<CHUNKS_PER_REGION, Len(region)>>]
  ELSE pack_region_loop(region, 0)

(* ------------------ decoder: raw/mod.rs -------------------------------- *)

\* the (extent start, extent length) of every slot, in bytes
get_posistion_table(file, schema) ==
  [i \in 1..schema.chunks_per_region |->
     LET rec == (i - 1) * schema.posistion_table_record_len IN
     << BigEndian(file, rec + schema.pos_table_start_bytes[1],
                  rec + schema.pos_table_start_bytes[2])
          * schema.pos_multiplier,
        BigEndian(file, rec + schema.pos_table_size_bytes[1],
                  rec + schema.pos_table_size_bytes[2])
          * schema.size_multiplier >>]

\* the 32-bit timestamp of every slot; the table follows the position table
get_timestamp_table(file, schema) ==
  [i \in 1..schema.chunks_per_region |->
     LET rec == schema.chunks_per_region * schema.posistion_table_record_len
                  + (i - 1) * 4
     IN BigEndian(file, rec, rec + 4)]

compression_of(tag) ==
  IF tag = 1 THEN GZip ELSE IF tag = 2 THEN ZLib ELSE Other(tag)

get_chunks_iter(file, header_table, timestamp_table, schema, i) ==
  LET extent_start  == header_table[i + 1][1]
      extent_length == header_table[i + 1][2]
  IN
  IF extent_start = 0
    THEN Ok(RawChunk(None, <<>>, timestamp_table[i + 1]))
  ELSE IF Len(file) < extent_start + extent_length
    THEN throw_chunk_pos_err(i, Len(file), extent_start + extent_length)
  ELSE IF extent_start + schema.chunk_starts_from > Len(file)
    THEN Abort("chunk header")
  ELSE LET exact_length ==
             BigEndian(file, extent_start + schema.chunk_header_size_bytes[1],
                       extent_start + schema.chunk_header_size_bytes[2])
           tag == At(file, extent_start + schema.chunk_header_compr_bytes[1])
           declared_len == exact_length + schema.chunk_starts_from
       IN IF declared_len > extent_length
            THEN throw_chunk_header_err(i, extent_length, declared_len)
          ELSE Ok(RawChunk(compression_of(tag),
                    Slice(file, extent_start + schema.chunk_starts_from,
                          extent_start + declared_len),
                    timestamp_table[i + 1]))

RECURSIVE get_chunks_loop(_, _, _, _, _, _)
get_chunks_loop(file, header_table, timestamp_table, schema, i, chunks) ==
  IF i = schema.chunks_per_region THEN [kind |-> "Ok", chunks |-> chunks]
  ELSE LET r == get_chunks_iter(file, header_table, timestamp_table, schema, i)
       IN IF r.kind = "Ok"
            THEN get_chunks_loop(file, header_table, timestamp_table, schema,
                                 i + 1, Append(chunks, r.val))
          ELSE r

get_chunks(file, header_table, timestamp_table, schema) ==
  get_chunks_loop(file, header_table, timestamp_table, schema, 0, <<>>)

\* RawRegion::from_file
from_file(file, schema) ==
  LET min_size == schema.min_anvil_file_size IN
  IF Len(file) < min_size THEN throw_file_size_err(min_size, Len(file))
  ELSE LET header_table    == get_posistion_table(file, schema)
           timestamp_table == get_timestamp_table(file, schema)
       IN get_chunks(file, header_table, timestamp_table, schema)

(* ----------------------------- inputs ---------------------------------- *)

\* byte k (0 the lowest) of n
ByteOf(n, k) == (n \div Pow256(k)) % 256

\* the first block after the two tables
FirstBlock == MIN_SIZE \div BLOCK

\* position-table entries (offset field, length field) of the input files
Entries ==
  {<<0, 0>>, <<0, 1>>, <<0, 255>>, <<FirstBlock, 0>>, <<FirstBlock, 2>>,
   <<256, 1>>}
    \cup {<<FirstBlock + k, 1>> : k \in 0..(MaxDataBlocks - 1)}

\* length fields of the header of the first data block
Sizes == {0, 1, BLOCK - 5, BLOCK - 4, BLOCK - 3,
          2 * BLOCK - 5, 2 * BLOCK - 4, 256}

\* compression bytes of the header of the first data block
Tags == {1, 7}

\* lengths of the input files
Lengths ==
  {0, MIN_SIZE - 1} \cup
    {MIN_SIZE + k * BLOCK - d : k \in 1..MaxDataBlocks, d \in {0, 1}}
    \cup {MIN_SIZE}

\* timestamp stored for slot i (0-based) of the input files
StampOf(i) == 16909060 + i

\* The input file of the given length: position table tbl, timestamps
\* StampOf, then data blocks that each start with a header; the first has
\* length field size0 and compression byte tag0, the others 1 and 2.
MkFile(length, tbl, size0, tag0) ==
  [j \in 1..length |->
     LET p == j - 1 IN
     IF p < RECORD_LEN * CHUNKS_PER_REGION
       THEN LET e == tbl[p \div RECORD_LEN + 1]
                k == p % RECORD_LEN
            IN IF k < 3 THEN ByteOf(e[1], 2 - k) ELSE e[2]
     ELSE IF p < MIN_SIZE
       THEN LET q == p - RECORD_LEN * CHUNKS_PER_REGION
            IN ByteOf(StampOf(q \div 4), 3 - (q % 4))
     ELSE LET d == p - MIN_SIZE
              b == d \div BLOCK
              q == d % BLOCK
          IN IF q < 4 THEN ByteOf(IF b = 0 THEN size0 ELSE 1, 3 - q)
             ELSE IF q = 4 THEN (IF b = 0 THEN tag0 ELSE 2)
             ELSE (3 * p + 1) % 256]

Files ==
  {MkFile(n, tbl, size0, tag0) :
     n \in Lengths, tbl \in [1..CHUNKS_PER_REGION -> Entries],
     size0 \in Sizes, tag0 \in Tags}

Payload(n) == [j \in 1..n |-> 10 + j]

\* the chunks of the input regions
Chunks ==
  { RawChunk(None, <<>>, 0), RawChunk(None, <<>>, 16909060),
    RawChunk(GZip, Payload(1), 1), RawChunk(ZLib, Payload(BLOCK - 5), 0),
    RawChunk(GZip, Payload(BLOCK - 4), 2),
    RawChunk(None, Payload(BLOCK + 1), 3) }

Regions ==
  UNION {[1..n -> Chunks] :
           n \in (CHUNKS_PER_REGION - 1)..(CHUNKS_PER_REGION + 1)}

\* the region as pack_region takes it: (chunk, compression byte)
AsPairs(chunks) ==
  [i \in 1..Len(chunks) |-> <<chunks[i][2], make_compr_bytes(chunks[i][1])[1]>>]

(* ----------------------------- state ----------------------------------- *)

VARIABLES
  file,     \* the byte buffer handed to the decoders
  region,   \* the chunks handed to the encoders
  op,       \* the last call made
  result    \* what that call returned

vars == <<file, region, op, result>>

Init ==
  /\ op = "new"
  /\ result = [kind |-> "None"]
  /\ \/ file \in Files /\ region = <<>>
     \/ file = <<>> /\ region \in Regions

GetRegionRaw ==
  /\ op' = "get_region_raw"
  /\ result' = get_region_raw(file)
  /\ UNCHANGED <<file, region>>

GetRegionRawUnpackRs ==
  /\ op' = "get_region_raw (unpack.rs)"
  /\ result' = get_region_raw_unpack_rs(file)
  /\ UNCHANGED <<file, region>>

FromFile ==
  /\ op' = "from_file"
  /\ result' = from_file(file, DefaultSchema)
  /\ UNCHANGED <<file, region>>

ToFile ==
  /\ op' = "to_file"
  /\ result' = to_file(region, DefaultSchema)
  /\ UNCHANGED <<file, region>>

PackRegion ==
  /\ op' = "pack_region"
  /\ result' = pack_region(AsPairs(region))
  /\ UNCHANGED <<file, region>>

\* pack_chunks, as to_file calls it
PackChunks ==
  /\ op' = "pack_chunks"
  /\ result' = pack_chunks(region, DefaultSchema)
  /\ UNCHANGED <<file, region>>

\* create_header_table, as to_file calls it once pack_chunks has returned
CreateHeaderTable ==
  /\ pack_chunks(region, DefaultSchema).kind = "Ok"
  /\ op' = "create_header_table"
  /\ result' = create_header_table(region,
                 pack_chunks(region, DefaultSchema).val, DefaultSchema)
  /\ UNCHANGED <<file, region>>

\* format_chunk_data, as pack_chunks calls it, on the first chunk
FormatChunkData ==
  /\ Len(region) > 0
  /\ op' = "format_chunk_data"
  /\ result' = format_chunk_data(region[1][2], region[1][1], DefaultSchema)
  /\ UNCHANGED <<file, region>>

\* get_packed_chunk, as format_chunk_data calls it, on the first chunk
GetPackedChunk ==
  /\ Len(region) > 0
  /\ Len(region[1][2]) > 0
  /\ op' = "get_packed_chunk"
  /\ result' = Ok(get_packed_chunk(region[1][2], DefaultSchema))
  /\ UNCHANGED <<file, region>>

\* make_header, as format_chunk_data calls it, on the first chunk
MakeHeader ==
  /\ Len(region) > 0
  /\ Len(region[1][2]) > 0
  /\ op' = "make_header"
  /\ result' = make_header(Len(region[1][2]), region[1][1], DefaultSchema)
  /\ UNCHANGED <<file, region>>

Next ==
  \/ GetRegionRaw
  \/ GetRegionRawUnpackRs
  \/ FromFile
  \/ ToFile
  \/ PackRegion
  \/ PackChunks
  \/ CreateHeaderTable
  \/ FormatChunkData
  \/ GetPackedChunk
  \/ MakeHeader

Spec == Init /\ [][Next]_vars

(* ------------------- vocabulary of the properties ---------------------- *)

Slots == 0..(CHUNKS_PER_REGION - 1)

\* the offset sub-field of position record i, in blocks
OffsetField(f, i) == f[4 * i + 1] * 65536 + f[4 * i + 2] * 256 + f[4 * i + 3]

\* the length sub-field of position record i, in blocks
LengthField(f, i) == f[4 * i + 4]

ExtentStart(f, i) == OffsetField(f, i) * BLOCK

ExtentLength(f, i) == LengthField(f, i) * BLOCK

ExtentEnd(f, i) == ExtentStart(f, i) + ExtentLength(f, i)

\* the header of slot i lies inside the buffer
HeaderInside(f, i) == ExtentStart(f, i) + 5 <= Len(f)

\* the big-endian value of the header length field of slot i
ExactLength(f, i) ==
  LET s == ExtentStart(f, i) IN
  f[s + 1] * 16777216 + f[s + 2] * 65536 + f[s + 3] * 256 + f[s + 4]

Populated(f, i) == OffsetField(f, i) # 0

Overruns(f, i) == Populated(f, i) /\ ExtentEnd(f, i) > Len(f)

\* slot i is unpopulated, or its extent lies inside the buffer and its
\* header and payload lie inside its extent
WellFormed(f, i) ==
  \/ ~Populated(f, i)
  \/ /\ ExtentEnd(f, i) <= Len(f)
     /\ ExtentLength(f, i) >= 5
     /\ ExactLength(f, i) + 5 <= ExtentLength(f, i)

AllAbsent == [i \in 1..CHUNKS_PER_REGION |-> RawChunk(None, <<>>, 0)]

(* ----------------------------- C1 -------------------------------------- *)

\* C1: every region of exactly chunks_per_region chunks encodes, and the
\* encoding decodes to the same chunks (compression, payload, timestamp).
C1_RoundTrip ==
  (op = "to_file" /\ Len(region) = CHUNKS_PER_REGION) =>
     /\ result.kind = "Ok"
     /\ from_file(result.bytes, DefaultSchema)
          = [kind |-> "Ok", chunks |-> region]

(* ----------------------------- C2 -------------------------------------- *)

\* C2: the region whose chunks are all (None, empty, 0) encodes to exactly
\* min_anvil_file_size zero bytes, and that buffer decodes to the same region.
C2_AbsenceEncoding ==
  (op = "to_file" /\ region = AllAbsent) =>
     /\ result = [kind |-> "Ok", bytes |-> Zeros(MIN_SIZE)]
     /\ from_file(Zeros(MIN_SIZE), DefaultSchema)
          = [kind |-> "Ok", chunks |-> AllAbsent]

(* ----------------------------- C3 -------------------------------------- *)

\* C3: a buffer shorter than the minimum size is refused with the file size
\* error, whose actual value is the buffer length and whose minimum is the
\* minimum size; a buffer of exactly the minimum size with an all-zero
\* position table decodes.
C3_MinimumSize ==
  /\ (op = "from_file" /\ Len(file) < MIN_SIZE) =>
        /\ result.kind = "UnpackFileSizeErr"
        /\ result.info.specified_val = Len(file)
        /\ result.info.min_val = MIN_SIZE
  /\ (op = "get_region_raw" /\ Len(file) < MIN_SIZE) =>
        /\ result.kind = "FileSizeErr"
        /\ result.file_length = Len(file)
        /\ result.minimum_length = MIN_SIZE
  /\ (/\ op = "get_region_raw"
      /\ Len(file) = MIN_SIZE
      /\ \A p \in 1..(4 * CHUNKS_PER_REGION) : file[p] = 0) =>
        result.kind = "Ok"

C3_Witness ==
  /\ op = "from_file"
  /\ Len(file) = MIN_SIZE - 1
  /\ result.kind = "UnpackFileSizeErr"
  /\ result.info.specified_val = MIN_SIZE - 1

(* ----------------------------- C4 -------------------------------------- *)

\* C4 as stated: whenever some populated slot i overruns the buffer, decode
\* fails with the position error of that slot i (calls that abort, the
\* subject of C7, set aside).
C4_AnySlotOverrun ==
  (op = "get_region_raw" /\ Len(file) >= MIN_SIZE /\ result.kind # "Abort") =>
     \A i \in Slots :
        Overruns(file, i) =>
          result = [kind |-> "ChunkPosErr", chunk_number |-> i,
                    file_length |-> Len(file),
                    chunk_end |-> ExtentEnd(file, i)]

\* C4 amended: when some populated slot overruns the buffer, decode returns
\* no region; and when every lower-indexed slot is unpopulated or well
\* formed, it fails with the position error of slot i (index, buffer
\* length, extent end).
C4_FirstOverrun ==
  (op = "get_region_raw" /\ Len(file) >= MIN_SIZE) =>
     \A i \in Slots :
        Overruns(file, i) =>
          /\ result.kind # "Ok"
          /\ (\A j \in 0..(i - 1) : WellFormed(file, j)) =>
                result = [kind |-> "ChunkPosErr", chunk_number |-> i,
                          file_length |-> Len(file),
                          chunk_end |-> ExtentEnd(file, i)]

C4_Witness ==
  /\ op = "get_region_raw"
  /\ Len(file) >= MIN_SIZE
  /\ Populated(file, 0) /\ WellFormed(file, 0)
  /\ Overruns(file, 1)
  /\ ExtentStart(file, 1) < Len(file)
  /\ result.kind = "ChunkPosErr"
  /\ result.chunk_number = 1

(* ----------------------------- C5 -------------------------------------- *)

\* C5: for a populated slot i whose extent lies inside the buffer and whose
\* lower-indexed slots are unpopulated or well formed, decode fails with the
\* header error (index i, extent length, exact length + 5) exactly when
\* exact length + 5 exceeds the extent length.
C5_HeaderOverrun ==
  (op = "get_region_raw" /\ Len(file) >= MIN_SIZE) =>
     \A i \in Slots :
        (/\ Populated(file, i)
         /\ ExtentEnd(file, i) <= Len(file)
         /\ HeaderInside(file, i)
         /\ \A j \in 0..(i - 1) : WellFormed(file, j)) =>
           ( result = [kind |-> "ChunkHeaderErr", chunk_number |-> i,
                       max_length |-> ExtentLength(file, i),
                       indicated_length |-> ExactLength(file, i) + 5]
             <=> ExactLength(file, i) + 5 > ExtentLength(file, i) )

(* ----------------------------- C6 -------------------------------------- *)

\* C6: encoding a region whose number of chunks differs from
\* chunks_per_region returns the slot count error (actual, expected); it
\* neither aborts on an index past the end of the region nor returns bytes.
C6_SlotCountMismatch ==
  /\ (op = "to_file" /\ Len(region) # CHUNKS_PER_REGION) =>
        /\ result.kind = "PackNoChunksErr"
        /\ result.info.specified_val = Len(region)
        /\ result.info.min_val = CHUNKS_PER_REGION
        /\ result.info.max_val = CHUNKS_PER_REGION
  /\ (op = "pack_region" /\ Len(region) # CHUNKS_PER_REGION) =>
        /\ result.kind = "TooLittleChunks"
        /\ result.args = <<CHUNKS_PER_REGION, Len(region)>>

(* ----------------------------- C7 -------------------------------------- *)

\* C7: decode returns a region or one of its three errors for every buffer;
\* it never aborts on an index outside the buffer.
C7_DecodeCompletes ==
  /\ (op = "get_region_raw") =>
       result.kind \in {"Ok", "FileSizeErr", "ChunkPosErr", "ChunkHeaderErr"}
  /\ (op = "get_region_raw (unpack.rs)") =>
       result.kind \in {"Ok", "FileSizeErr", "ChunkParseErr"}

(* ----------------------------- C8 -------------------------------------- *)

\* C8: encoding a region of exactly chunks_per_region chunks under the
\* default schema returns a byte sequence; it never aborts.
C8_EncodeCompletes ==
  (op \in {"to_file", "pack_region"} /\ Len(region) = CHUNKS_PER_REGION) =>
     result.kind = "Ok"

(* ----------------------------- C10 ------------------------------------- *)

TimestampField(f, i) ==
  LET s == 4 * CHUNKS_PER_REGION + 4 * i IN
  f[s + 1] * 16777216 + f[s + 2] * 65536 + f[s + 3] * 256 + f[s + 4]

TagBytes == {0, 1, 2, 3, 255}

\* the position (from 1) of the compression byte of slot i
TagPos(f, i) == ExtentStart(f, i) + 5

\* the buffer f with the compression byte of slot i set to t
WithTag(f, i, t) == [f EXCEPT ![TagPos(f, i)] = t]

\* the compression byte of slot i lies in the payload of slot k
TagInPayload(f, i, k) ==
  /\ Populated(f, k) /\ HeaderInside(f, k)
  /\ TagPos(f, i) > ExtentStart(f, k) + 5
  /\ TagPos(f, i) <= ExtentStart(f, k) + 5 + ExactLength(f, k)

LeastMultiple(n) ==
  CHOOSE m \in n..(n + BLOCK) : m % BLOCK = 0

\* the length of the extent of a chunk: header and payload, rounded up
PaddedLength(chunk) ==
  IF chunk = <<>> THEN 0 ELSE LeastMultiple(5 + Len(chunk))

\* where the extent of slot i (from 0) belongs
RECURSIVE ExpectedStart(_, _)
ExpectedStart(chunks, i) ==
  IF i = 0 THEN MIN_SIZE
  ELSE ExpectedStart(chunks, i - 1) + PaddedLength(chunks[i][2])

\* the compression byte of a Compression
TagOf(compression) ==
  IF compression = [variant |-> "GZip"] THEN 1
  ELSE IF compression = [variant |-> "ZLib"] THEN 2 ELSE 0

(* ----------------------------- C13 ------------------------------------- *)

\* C13: in the position table the encoder builds, the record of a slot with
\* a non-empty payload holds the extent start and the padded extent length,
\* both in blocks; the record of a slot with an empty payload is zero.
C13_PositionTable ==
  (op = "create_header_table" /\ Len(region) = CHUNKS_PER_REGION) =>
     /\ result.kind = "Ok"
     /\ Len(result.val) = MIN_SIZE
     /\ \A i \in Slots :
          IF region[i + 1][2] = <<>>
            THEN OffsetField(result.val, i) = 0
                 /\ LengthField(result.val, i) = 0
            ELSE OffsetField(result.val, i) * BLOCK
                   = ExpectedStart(region, i)
                 /\ LengthField(result.val, i) * BLOCK
                   = PaddedLength(region[i + 1][2])

(* ----------------------------- C14 ------------------------------------- *)

\* C14: the running position of the encoder starts at the minimum file
\* size, and a slot advances it by exactly the length of its packed chunk,
\* so that an empty slot leaves it unchanged.
C14_ExtentPlacement ==
  (op = "create_header_table") =>
     LET packed_chunks == pack_chunks(region, DefaultSchema).val IN
     /\ pos_from_start_init = MIN_SIZE
     /\ \A i \in 1..Len(packed_chunks) :
          \A cursor \in {MIN_SIZE, MIN_SIZE + BLOCK} :
             pos_from_start_next(cursor, packed_chunks[i], DefaultSchema)
               = cursor + Len(packed_chunks[i])

(* ----------------------------- C15 ------------------------------------- *)

\* C15: a chunk with a non-empty payload is serialized as its header and
\* payload followed by zero bytes only, up to the least multiple of the
\* block size; a chunk with an empty payload is serialized as nothing.
C15_Padding ==
  /\ (op = "format_chunk_data") =>
        LET chunk == region[1][2] IN
        IF chunk = <<>> THEN result = [kind |-> "Ok", val |-> <<>>]
        ELSE /\ result.kind = "Ok"
             /\ Len(result.val) = LeastMultiple(5 + Len(chunk))
             /\ SubSeq(result.val, 6, 5 + Len(chunk)) = chunk
             /\ \A j \in (6 + Len(chunk))..Len(result.val) : result.val[j] = 0
  /\ (op = "get_packed_chunk") =>
        \* the packed chunk is the part of the extent after the header
        /\ (5 + Len(result.val)) % BLOCK = 0
        /\ 5 + Len(result.val) - (5 + Len(region[1][2])) < BLOCK

(* ----------------------------- C16 ------------------------------------- *)

\* C16: the header of a chunk with a payload of n > 0 bytes is the 4-byte
\* big-endian value n + 1 followed by the compression byte (1 for GZip, 2
\* for ZLib, 0 for None).
C16_Header ==
  (op = "make_header") =>
     LET n == Len(region[1][2]) IN
     /\ result.kind = "Ok"
     /\ result.val = << ((n + 1) \div 16777216) % 256,
                        ((n + 1) \div 65536) % 256,
                        ((n + 1) \div 256) % 256,
                        (n + 1) % 256,
                        TagOf(region[1][1]) >>

(* ----------------------------- C17 ------------------------------------- *)

\* the header of slot i declares more than its extent holds
HeaderOverrun(f, i) ==
  /\ Populated(f, i) /\ ~Overruns(f, i) /\ HeaderInside(f, i)
  /\ ExactLength(f, i) + 5 > ExtentLength(f, i)

Faulty(f, i) == Overruns(f, i) \/ HeaderOverrun(f, i)

\* C17: a buffer below the minimum size is refused before any slot is
\* looked at; an error about a slot names the lowest-indexed slot that
\* overruns the buffer or whose header overruns its extent, and it is the
\* position error when that slot overruns the buffer; an error carries no
\* region.
C17_OrderOfChecks ==
  (op = "get_region_raw") =>
     /\ Len(file) < MIN_SIZE => result.kind = "FileSizeErr"
     /\ result.kind \in {"ChunkPosErr", "ChunkHeaderErr"} =>
          LET i == result.chunk_number IN
          /\ Faulty(file, i)
          /\ \A j \in 0..(i - 1) : ~Faulty(file, j)
          /\ Overruns(file, i) <=> result.kind = "ChunkPosErr"
     /\ result.kind # "Ok" => "chunks" \notin DOMAIN result

(* ----------------------------- C18 ------------------------------------- *)

\* C18: whenever either decoder succeeds, for every populated slot the
\* payload returned ends inside that slot's own extent (no byte of it lies
\* at or after extent_start + extent_length), and that extent ends inside
\* the buffer.
C18_PayloadInsideExtent ==
  (op \in {"get_region_raw", "get_region_raw (unpack.rs)"}
     /\ result.kind = "Ok") =>
     \A i \in Slots :
       Populated(file, i) =>
         /\ ExtentStart(file, i) + 5 + Len(result.chunks[i + 1].data)
              <= ExtentEnd(file, i)
         /\ ExtentEnd(file, i) <= Len(file)

====
